---------------------------- MODULE Spec2Model ----------------------------
(***************************************************************************)
(* A model of bbkm (src/bbkm): the mesh pipeline of modifications.py       *)
(* (fill_battery_gap, add_magsafe_recess, apply_modifications) as driven   *)
(* by main.py, with the RingSpec measurement of analyzer.py.               *)
(*                                                                         *)
(* Numbers.  The program computes in float millimetres.  The model uses    *)
(* fixed point: X and Y are integers in units of 0.5 mm, Z is an integer   *)
(* in units of 0.005 mm.  (The two scales differ because TLC integers are  *)
(* 32 bits wide: the signed volume multiplies x, y and z.  Every test that *)
(* mixes the axes -- the sign of a volume, a zero cross product -- is      *)
(* invariant under a positive scaling of one axis.)                        *)
(* Sequences are 1-based, so a face holds 1-based vertex indices: index i  *)
(* of the program is index i + 1 here.                                     *)
(***************************************************************************)
EXTENDS Integers, Sequences, FiniteSets, TLC

(***************************************************************************)
(* Program constants, in model units.                                      *)
(***************************************************************************)
\* z_threshold = z_min + 0.5 (0.5 mm = 100 Z units)
ZThresholdOffset == 100
\* np.abs(vertices[:, 2] - z_min) < 0.5
BackSurfaceTol == 100
\* grid_density = 2.0 (mm = 4 XY units)
GridDensity == 4
\* outer_radius=28.0, inner_radius=22.5, depth=2.5 passed by apply_modifications
OuterRadius == 56
InnerRadius == 45
RecessDepth == 500
\* num_segments = 64
NumSegments == 64

(***************************************************************************)
(* Small helpers.                                                          *)
(***************************************************************************)
Abs(n) == IF n < 0 THEN -n ELSE n

Indices(n) == [i \in 1..n |-> i]

\* a function over 1..n as a sequence value
AsSeq(f) == f \o <<>>

Range(s) == {s[i] : i \in 1..Len(s)}

\* the least element of a non-empty set of integers
MinOf(S) == CHOOSE x \in S : \A y \in S : x <= y

MaxOf(S) == CHOOSE x \in S : \A y \in S : x >= y

\* n / d rounded to the nearest integer, halves to the even one (np.rint)
RoundDiv(n, d) ==
    LET q == n \div d
        r == n % d
    IN  IF 2 * r < d THEN q
        ELSE IF 2 * r > d THEN q + 1
        ELSE IF q % 2 = 0 THEN q ELSE q + 1

(***************************************************************************)
(* Meshes: [vertices |-> Seq(<<x, y, z>>), faces |-> Seq(<<a, b, c>>)].    *)
(***************************************************************************)
Mesh(v, f) == [vertices |-> v, faces |-> f]

ZMin(v) == MinOf({v[i][3] : i \in 1..Len(v)})

\* the three corner positions of a face
Tri(v, f) == <<v[f[1]], v[f[2]], v[f[3]]>>

\* the face with its winding reversed (faces[i][::-1])
Reverse(f) == <<f[3], f[2], f[1]>>

\* the cross product (p2 - p1) x (p3 - p1) of a triangle
Cross(t) ==
    LET ux == t[2][1] - t[1][1]
        uy == t[2][2] - t[1][2]
        uz == t[2][3] - t[1][3]
        wx == t[3][1] - t[1][1]
        wy == t[3][2] - t[1][2]
        wz == t[3][3] - t[1][3]
    IN  <<uy * wz - uz * wy, uz * wx - ux * wz, ux * wy - uy * wx>>

\* a face of zero area (collinear or repeated corners)
IsDegenerate(v, f) == Cross(Tri(v, f)) = <<0, 0, 0>>

\* six times the signed volume of the tetrahedron from the origin to a face
Det(t) ==
      t[1][1] * (t[2][2] * t[3][3] - t[3][2] * t[2][3])
    - t[1][2] * (t[2][1] * t[3][3] - t[3][1] * t[2][3])
    + t[1][3] * (t[2][1] * t[3][2] - t[3][1] * t[2][2])

\* the sum of Det over faces lo..hi
RECURSIVE SumDet(_, _, _, _)
SumDet(v, f, lo, hi) ==
    IF lo > hi THEN 0
    ELSE IF lo = hi THEN Det(Tri(v, f[lo]))
    ELSE LET mid == (lo + hi) \div 2
         IN  SumDet(v, f, lo, mid) + SumDet(v, f, mid + 1, hi)

\* six times mesh.volume
Volume6(m) == SumDet(m.vertices, m.faces, 1, Len(m.faces))

(***************************************************************************)
(* Mesh repair: the trimesh calls made after every structural edit.  They  *)
(* are library code; each operator does what the call does on the lattice  *)
(* (the merge tolerance of 1e-8 mm is below one unit, so two positions     *)
(* merge exactly when they are equal).                                     *)
(***************************************************************************)
\* the least index holding the position of vertex i
FirstAt(v, i) ==
    CHOOSE j \in 1..i : v[j] = v[i] /\ \A k \in 1..(j - 1) : v[k] # v[i]

\* Trimesh.merge_vertices: one index per position, first occurrence kept,
\* order kept, faces remapped
MergeVertices(m) ==
    LET v == m.vertices
        n == Len(v)
        first == AsSeq([i \in 1..n |-> FirstAt(v, i)])
        kept == SelectSeq(Indices(n), LAMBDA i : first[i] = i)
        newIdx == AsSeq([i \in 1..n |->
                           IF first[i] = i
                           THEN Cardinality({j \in 1..i : first[j] = j})
                           ELSE 0])
        remap(i) == newIdx[first[i]]
    IN  Mesh(AsSeq([k \in 1..Len(kept) |-> v[kept[k]]]),
             AsSeq([k \in 1..Len(m.faces) |->
                      <<remap(m.faces[k][1]), remap(m.faces[k][2]),
                        remap(m.faces[k][3])>>]))

\* Trimesh.remove_degenerate_faces
RemoveDegenerateFaces(m) ==
    Mesh(m.vertices,
         SelectSeq(m.faces, LAMBDA f : ~IsDegenerate(m.vertices, f)))

\* Trimesh.remove_duplicate_faces: same vertex set whatever the winding,
\* the first one kept
RemoveDuplicateFaces(m) ==
    LET f == m.faces
        sets == AsSeq([k \in 1..Len(f) |-> {f[k][1], f[k][2], f[k][3]}])
        kept == SelectSeq(Indices(Len(f)),
                          LAMBDA k : \A j \in 1..(k - 1) : sets[j] # sets[k])
    IN  Mesh(m.vertices, AsSeq([k \in 1..Len(kept) |-> f[kept[k]]]))

\* Trimesh.remove_unreferenced_vertices: order kept, faces remapped
RemoveUnreferencedVertices(m) ==
    LET v == m.vertices
        n == Len(v)
        used == UNION {{m.faces[k][1], m.faces[k][2], m.faces[k][3]} :
                         k \in 1..Len(m.faces)}
        kept == SelectSeq(Indices(n), LAMBDA i : i \in used)
        newIdx == AsSeq([i \in 1..n |-> Cardinality({j \in used : j <= i})])
    IN  Mesh(AsSeq([k \in 1..Len(kept) |-> v[kept[k]]]),
             AsSeq([k \in 1..Len(m.faces) |->
                      <<newIdx[m.faces[k][1]], newIdx[m.faces[k][2]],
                        newIdx[m.faces[k][3]]>>]))

(***************************************************************************)
(* Trimesh.fix_normals = repair.fix_winding then repair.fix_inversion.     *)
(***************************************************************************)
\* the directed edges of a face (faces_to_edges)
DirEdges(f) == {<<f[1], f[2]>>, <<f[2], f[3]>>, <<f[3], f[1]>>}

\* the undirected edge in slot s of a face (a row of edges_sorted)
EdgeAt(f, s) == {f[s], f[(s % 3) + 1]}

\* mesh.face_adjacency: for each face, the other faces it shares an edge
\* with, over the edges that occur exactly twice among all the faces
\* (group_rows require_count=2)
FaceAdjacency(faces) ==
    LET n == Len(faces)
        vs == AsSeq([k \in 1..n |-> {faces[k][1], faces[k][2], faces[k][3]}])
        near == AsSeq([k \in 1..n |->
                         {j \in 1..n : vs[k] \cap vs[j] # {}}])
        count(k, e) ==
            Cardinality({js \in near[k] \X (1..3) :
                            EdgeAt(faces[js[1]], js[2]) = e})
    IN  AsSeq([k \in 1..n |->
                 {j \in near[k] \ {k} :
                     \E s \in 1..3 :
                        LET e == EdgeAt(faces[k], s)
                        IN  /\ \E t \in 1..3 : EdgeAt(faces[j], t) = e
                            /\ count(k, e) = 2}])

\* mesh.is_winding_consistent: the two faces of every shared edge run
\* through it in opposite directions
IsWindingConsistent(faces) ==
    LET adj == FaceAdjacency(faces)
    IN  \A k \in 1..Len(faces) : \A j \in adj[k] :
            DirEdges(faces[k]) \cap DirEdges(faces[j]) = {}

\* the ascending sequence of a set of integers
SortedSeq(S) ==
    AsSeq([i \in 1..Cardinality(S) |->
        CHOOSE x \in S : Cardinality({y \in S : y < x}) = i - 1])

\* the faces that a breadth-first level discovers, in discovery order:
\* parent by parent of the frontier, the not yet visited neighbours of the
\* parent in ascending order
Discovered(adj, frontier, visited) ==
    LET D == (UNION {adj[frontier[i]] : i \in 1..Len(frontier)}) \ visited
        par(c) == MinOf({i \in 1..Len(frontier) : c \in adj[frontier[i]]})
        before(a, b) == par(a) < par(b) \/ (par(a) = par(b) /\ a < b)
    IN  AsSeq([i \in 1..Cardinality(D) |->
            CHOOSE c \in D : Cardinality({b \in D : before(b, c)}) = i - 1])

\* one step of the breadth-first propagation of repair.fix_winding
\* (nx.bfs_edges over each connected component of the adjacency graph):
\* with an empty frontier the traversal starts at the first face not yet
\* visited, or is done; otherwise it visits the next level, and a child
\* whose shared edge runs the way its parent's does is reversed
WindingStep(adj, s) ==
    IF s.done THEN s
    ELSE IF s.frontier = <<>>
    THEN LET rest == {k \in 1..Len(s.faces) :
                         k \notin s.visited /\ adj[k] # {}}
         IN  IF rest = {} THEN [s EXCEPT !.done = TRUE]
             ELSE [s EXCEPT !.frontier = <<MinOf(rest)>>,
                            !.visited = @ \cup {MinOf(rest)}]
    ELSE LET faces == s.faces
             frontier == s.frontier
             next == Discovered(adj, frontier, s.visited)
             new == {next[i] : i \in 1..Len(next)}
             parent(c) ==
                 frontier[MinOf({i \in 1..Len(frontier) :
                                    c \in adj[frontier[i]]})]
             flipped ==
                 AsSeq([k \in 1..Len(faces) |->
                    IF k \in new
                       /\ DirEdges(faces[parent(k)]) \cap DirEdges(faces[k])
                            # {}
                    THEN Reverse(faces[k])
                    ELSE faces[k]])
         IN  [faces |-> flipped, frontier |-> next,
              visited |-> s.visited \cup new, done |-> FALSE]

\* n steps of the propagation
RECURSIVE WindingSteps(_, _, _)
WindingSteps(adj, s, n) ==
    IF n = 0 THEN s
    ELSE IF n = 1 THEN WindingStep(adj, s)
    ELSE LET half == WindingSteps(adj, s, n \div 2)
         IN  IF half.done THEN half
             ELSE WindingSteps(adj, half, n - n \div 2)

\* the propagation run until every component is traversed: at most one
\* start and one level per face, and the step that finds nothing left
Propagate(faces, adj) ==
    WindingSteps(adj,
                 [faces |-> faces, frontier |-> <<>>, visited |-> {},
                  done |-> FALSE],
                 2 * Len(faces) + 1).faces

\* repair.fix_winding
FixWinding(m) ==
    IF IsWindingConsistent(m.faces) THEN m
    ELSE Mesh(m.vertices,
              Propagate(m.faces, FaceAdjacency(m.faces)))

\* fix_inversion with the comparison the wrong way round
FixInversionPositive(m) ==
    IF Volume6(m) > 0
    THEN Mesh(m.vertices,
              AsSeq([k \in 1..Len(m.faces) |-> Reverse(m.faces[k])]))
    ELSE m

\* repair.fix_inversion: a negative volume turns every face round
FixInversion(m) ==
    IF Volume6(m) < 0
    THEN Mesh(m.vertices,
              AsSeq([k \in 1..Len(m.faces) |-> Reverse(m.faces[k])]))
    ELSE m

FixNormals(m) == FixInversion(FixWinding(m))

\* trimesh.Trimesh(vertices=..., faces=...): process=True merges vertices
Trimesh(v, f) == MergeVertices(Mesh(v, f))

\* the clean-up with the duplicate faces removed before the vertices are
\* merged
RepairFillDuplicatesFirst(m) ==
    RemoveUnreferencedVertices(
        RemoveDegenerateFaces(MergeVertices(RemoveDuplicateFaces(m))))

\* the clean-up of fill_battery_gap
RepairFill(m) ==
    RemoveUnreferencedVertices(
        RemoveDuplicateFaces(RemoveDegenerateFaces(MergeVertices(m))))

\* the clean-up of add_magsafe_recess
RepairRecess(m) == FixNormals(RepairFill(m))

(***************************************************************************)
(* add_magsafe_recess.                                                     *)
(***************************************************************************)
\* 1000 * cos(2 pi k / 64) for k = 0..63: np.cos over
\* np.linspace(0, 2*np.pi, num_segments, endpoint=False)
CosMilli ==
    <<1000, 995, 981, 957, 924, 882, 831, 773, 707, 634, 556, 471, 383, 290,
      195, 98, 0, -98, -195, -290, -383, -471, -556, -634, -707, -773, -831,
      -882, -924, -957, -981, -995, -1000, -995, -981, -957, -924, -882, -831,
      -773, -707, -634, -556, -471, -383, -290, -195, -98, 0, 98, 195, 290,
      383, 471, 556, 634, 707, 773, 831, 882, 924, 957, 981, 995>>

CosAt(k) == CosMilli[(k % NumSegments) + 1]
SinAt(k) == CosMilli[((k + 3 * (NumSegments \div 4)) % NumSegments) + 1]

\* mesh.bounds: <<min corner, max corner>> of the vertices
Bounds(v) ==
    LET n == Len(v)
    IN  << <<MinOf({v[i][1] : i \in 1..n}), MinOf({v[i][2] : i \in 1..n}),
             MinOf({v[i][3] : i \in 1..n})>>,
           <<MaxOf({v[i][1] : i \in 1..n}), MaxOf({v[i][2] : i \in 1..n}),
             MaxOf({v[i][3] : i \in 1..n})>> >>

\* twice the recess centre (the halving of (min + max) / 2 is kept exact
\* by carrying the centre doubled): bounds midpoint, or the given position
Center2(v, position) ==
    IF position = <<>>
    THEN LET b == Bounds(v) IN <<b[1][1] + b[2][1], b[1][2] + b[2][2]>>
    ELSE <<2 * position[1], 2 * position[2]>>

\* four times the squared distances_from_center of a vertex
Dist2x4(p, c2) ==
    (2 * p[1] - c2[1]) * (2 * p[1] - c2[1])
  + (2 * p[2] - c2[2]) * (2 * p[2] - c2[2])

\* back_surface_mask
BackSurface(p, zmin) == Abs(p[3] - zmin) < BackSurfaceTol

\* inner_circle_mask: distance <= inner_radius, on the back surface
InnerCircle(p, c2, zmin, inner) ==
    Dist2x4(p, c2) <= 4 * inner * inner /\ BackSurface(p, zmin)

\* the ring mask with the back-surface test left out
RingAreaAnyHeight(p, c2, zmin, inner, outer) ==
    /\ Dist2x4(p, c2) > 4 * inner * inner
    /\ Dist2x4(p, c2) <= 4 * outer * outer

\* ring_area_mask: inner_radius < distance <= outer_radius, on the back
RingArea(p, c2, zmin, inner, outer) ==
    /\ Dist2x4(p, c2) > 4 * inner * inner
    /\ Dist2x4(p, c2) <= 4 * outer * outer
    /\ BackSurface(p, zmin)

\* the displacement applied to everything within the outer radius
DisplaceWholeDisc(v, c2, zmin, inner, outer, depth) ==
    AsSeq([i \in 1..Len(v) |->
             IF RingArea(v[i], c2, zmin, 0 - 1, outer)
             THEN <<v[i][1], v[i][2], v[i][3] + depth>>
             ELSE v[i]])

\* vertices[ring_area_mask, 2] += depth
Displace(v, c2, zmin, inner, outer, depth) ==
    AsSeq([i \in 1..Len(v) |->
             IF RingArea(v[i], c2, zmin, inner, outer)
             THEN <<v[i][1], v[i][2], v[i][3] + depth>>
             ELSE v[i]])

\* [x, y] of wall vertex i on the circle of radius r, rounded to the lattice
WallXY(c2, r, i) ==
    <<RoundDiv(1000 * c2[1] + 2 * r * CosAt(i), 2000),
      RoundDiv(1000 * c2[2] + 2 * r * SinAt(i), 2000)>>

\* new_vertices: per angle a bottom (z_min) and a top (z_min + depth)
\* vertex, the outer wall first and the inner wall after it
WallVertices(c2, zmin, inner, outer, depth) ==
    AsSeq([j \in 1..(4 * NumSegments) |->
        LET r == IF j <= 2 * NumSegments THEN outer ELSE inner
            i == ((j - 1) % (2 * NumSegments)) \div 2
            xy == WallXY(c2, r, i)
        IN  <<xy[1], xy[2], IF (j - 1) % 2 = 0 THEN zmin ELSE zmin + depth>>])

\* the wall faces built for range(num_segments - 1): the last segment,
\* the one that closes the ring, is missing
WallFacesOpen(offset) ==
    AsSeq([q \in 1..(4 * (NumSegments - 1)) |->
        LET i == (q - 1) \div 4
            o1 == offset + 2 * i + 1
            o2 == offset + 2 * i + 2
            o3 == offset + 2 * (i + 1) + 2
            o4 == offset + 2 * (i + 1) + 1
            n1 == o1 + 2 * NumSegments
            n2 == o2 + 2 * NumSegments
            n3 == o3 + 2 * NumSegments
            n4 == o4 + 2 * NumSegments
        IN  CASE (q - 1) % 4 = 0 -> <<o1, o2, o3>>
              [] (q - 1) % 4 = 1 -> <<o1, o3, o4>>
              [] (q - 1) % 4 = 2 -> <<n1, n4, n3>>
              [] OTHER           -> <<n1, n3, n2>>])

\* new_faces: per segment two outer-wall faces then two inner-wall faces;
\* offset is vertex_offset (so offset + 1 is the first new 1-based index)
WallFaces(offset) ==
    AsSeq([q \in 1..(4 * NumSegments) |->
        LET i == (q - 1) \div 4
            next_i == (i + 1) % NumSegments
            o1 == offset + 2 * i + 1
            o2 == offset + 2 * i + 2
            o3 == offset + 2 * next_i + 2
            o4 == offset + 2 * next_i + 1
            n1 == o1 + 2 * NumSegments
            n2 == o2 + 2 * NumSegments
            n3 == o3 + 2 * NumSegments
            n4 == o4 + 2 * NumSegments
        IN  CASE (q - 1) % 4 = 0 -> <<o1, o2, o3>>
              [] (q - 1) % 4 = 1 -> <<o1, o3, o4>>
              [] (q - 1) % 4 = 2 -> <<n1, n4, n3>>
              [] OTHER           -> <<n1, n3, n2>>])

\* the arrays handed to trimesh.Trimesh at the end of add_magsafe_recess
RecessRaw(m, outer, inner, depth, position) ==
    LET v == m.vertices
        c2 == Center2(v, position)
        zmin == ZMin(v)
    IN  Mesh(Displace(v, c2, zmin, inner, outer, depth)
               \o WallVertices(c2, zmin, inner, outer, depth),
             m.faces \o WallFaces(Len(v)))

AddMagsafeRecess(m, outer, inner, depth, position) ==
    LET raw == RecessRaw(m, outer, inner, depth, position)
    IN  RepairRecess(Trimesh(raw.vertices, raw.faces))

(***************************************************************************)
(* fill_battery_gap.                                                       *)
(***************************************************************************)
\* back_vertex_indices: np.abs(vertices[:, 2] - z_min) < z_threshold with
\* z_threshold = z_min + 0.5
BackVertexIndices(v) ==
    LET zmin == ZMin(v)
    IN  {i \in 1..Len(v) : Abs(v[i][3] - zmin) < zmin + ZThresholdOffset}

\* np.arange(lo, hi, step): lo, lo + step, ... below hi
Arange(lo, hi, step) ==
    LET n == IF hi > lo THEN (hi - lo + step - 1) \div step ELSE 0
    IN  AsSeq([k \in 1..n |-> lo + (k - 1) * step])

\* <<x_min, y_min, x_max, y_max>> of back_verts
BackBox(v, back) ==
    <<MinOf({v[i][1] : i \in back}), MinOf({v[i][2] : i \in back}),
      MaxOf({v[i][1] : i \in back}), MaxOf({v[i][2] : i \in back})>>

\* the grid with both ends of each range included
GridVerticesInclusive(v, back) ==
    LET box == BackBox(v, back)
        xs == Arange(box[1], box[3] + 1, GridDensity)
        ys == Arange(box[2], box[4] + 1, GridDensity)
        ny == Len(ys)
    IN  AsSeq([k \in 1..(Len(xs) * ny) |->
                 <<xs[((k - 1) \div ny) + 1], ys[((k - 1) % ny) + 1],
                   ZMin(v)>>])

\* new_vertices: for x in x_points, for y in y_points, the points inside
\* the box, at z_min
GridVertices(v, back) ==
    LET box == BackBox(v, back)
        xs == Arange(box[1], box[3], GridDensity)
        ys == Arange(box[2], box[4], GridDensity)
        ny == Len(ys)
        all == AsSeq([k \in 1..(Len(xs) * ny) |->
                        <<xs[((k - 1) \div ny) + 1], ys[((k - 1) % ny) + 1],
                          ZMin(v)>>])
    IN  SelectSeq(all, LAMBDA p : /\ box[1] <= p[1] /\ p[1] <= box[3]
                                  /\ box[2] <= p[2] /\ p[2] <= box[4])

\* np.round(., decimals=2) of a point: X and Y lattice values (multiples
\* of 0.5 mm) have two decimals already; Z (units of 0.005 mm) rounds to
\* the nearest 0.01 mm, halves to even
RoundPointIdentity(p) == <<p[1], p[2], p[3]>>

RoundPoint(p) == <<p[1], p[2], 2 * RoundDiv(p[3], 2)>>

\* the order of np.unique(axis=0): rows compared column by column
LexLess(p, q) ==
    \/ p[1] < q[1]
    \/ p[1] = q[1] /\ p[2] < q[2]
    \/ p[1] = q[1] /\ p[2] = q[2] /\ p[3] < q[3]

SortedPoints(S) ==
    AsSeq([i \in 1..Cardinality(S) |->
        CHOOSE p \in S : Cardinality({q \in S : LexLess(q, p)}) = i - 1])

\* unique_points: the distinct rounded rows, sorted
UniquePoints(pts) == SortedPoints({RoundPoint(pts[i]) : i \in 1..Len(pts)})

(***************************************************************************)
(* scipy.spatial.Delaunay on the XY projection.                            *)
(***************************************************************************)
\* twice the signed area of the triangle a b c (positive: counterclockwise)
Orient(a, b, c) ==
    (b[1] - a[1]) * (c[2] - a[2]) - (b[2] - a[2]) * (c[1] - a[1])

\* the in-circle determinant: positive when d is strictly inside the
\* circle through the counterclockwise triangle a b c, zero when on it
InCircle(a, b, c, d) ==
    LET ax == a[1] - d[1]
        ay == a[2] - d[2]
        bx == b[1] - d[1]
        by == b[2] - d[2]
        cx == c[1] - d[1]
        cy == c[2] - d[2]
    IN    (ax * ax + ay * ay) * (bx * cy - cx * by)
        - (bx * bx + by * by) * (ax * cy - cx * ay)
        + (cx * cx + cy * cy) * (ax * by - bx * ay)

\* the simplices of the Delaunay triangulation of the points pts (read in
\* XY), as counterclockwise triples of indices into pts.  Of several
\* points with one XY only the first takes part (Qhull leaves the others
\* out of every simplex).  A triangle is kept when no point is strictly
\* inside its circle; points on one circle are triangulated as a fan from
\* the least index.
DelaunaySimplices(pts) ==
    LET n == Len(pts)
        xy(i) == <<pts[i][1], pts[i][2]>>
        reps == {i \in 1..n : \A j \in 1..(i - 1) : xy(j) # xy(i)}
        ccw(t) == IF Orient(pts[t[1]], pts[t[2]], pts[t[3]]) > 0
                  THEN t ELSE <<t[1], t[3], t[2]>>
        cands == {t \in reps \X reps \X reps :
                    /\ t[1] < t[2] /\ t[2] < t[3]
                    /\ Orient(pts[t[1]], pts[t[2]], pts[t[3]]) # 0}
        inc(t, d) == InCircle(pts[ccw(t)[1]], pts[ccw(t)[2]],
                              pts[ccw(t)[3]], pts[d])
        good(t) ==
            LET others == reps \ {t[1], t[2], t[3]}
                onIt == {d \in others : inc(t, d) = 0}
            IN  /\ \A d \in others : inc(t, d) <= 0
                /\ \A d \in onIt :
                      /\ t[1] < d
                      /\ (Orient(pts[t[2]], pts[t[3]], pts[d]) > 0)
                           = (Orient(pts[t[2]], pts[t[3]], pts[t[1]]) > 0)
        kept == {t \in cands : good(t)}
    IN  SortedPoints({ccw(t) : t \in kept})

\* Qhull raises (QhullError) when the points span no triangle
DelaunayFails(pts) ==
    \A i, j, k \in 1..Len(pts) : Orient(pts[i], pts[j], pts[k]) = 0

\* the new faces put in place of the old ones instead of after them
AppendFillReplacing(m, unique, simplices) ==
    LET vertex_offset == Len(m.vertices)
    IN  Mesh(m.vertices \o unique,
             AsSeq([k \in 1..Len(simplices) |->
                      <<simplices[k][1] + vertex_offset,
                        simplices[k][2] + vertex_offset,
                        simplices[k][3] + vertex_offset>>]))

\* the new faces appended without the vertex offset
AppendFillNoOffset(m, unique, simplices) ==
    Mesh(m.vertices \o unique, m.faces \o simplices)

\* "Add new vertices to mesh", "Add new faces": the unique points follow
\* the vertices, the simplices, moved by vertex_offset, follow the faces
AppendFill(m, unique, simplices) ==
    LET vertex_offset == Len(m.vertices)
    IN  Mesh(m.vertices \o unique,
             m.faces \o AsSeq([k \in 1..Len(simplices) |->
                                 <<simplices[k][1] + vertex_offset,
                                   simplices[k][2] + vertex_offset,
                                   simplices[k][3] + vertex_offset>>]))

\* FillSteps with the triangulation guard one point too low
FillStepsFromThree(m) ==
    LET v == m.vertices
        back == BackVertexIndices(v)
        backVerts == SelectSeq(v, LAMBDA p :
                        Abs(p[3] - ZMin(v)) < ZMin(v) + ZThresholdOffset)
        grid == IF back = {} THEN <<>> ELSE GridVertices(v, back)
        unique == IF Len(grid) > 0 THEN UniquePoints(backVerts \o grid)
                  ELSE <<>>
        triangulate == Len(unique) > 2
        raised == triangulate /\ DelaunayFails(unique)
        simplices == IF triangulate /\ ~raised
                     THEN DelaunaySimplices(unique) ELSE <<>>
    IN  [early |-> back = {},
         back |-> back,
         grid |-> grid,
         unique |-> unique,
         triangulate |-> triangulate,
         raised |-> raised,
         raw |-> IF triangulate /\ ~raised
                 THEN AppendFill(m, unique, simplices)
                 ELSE m]

\* what fill_battery_gap computes on the way:
\*   early       the return at "len(back_vertex_indices) == 0"
\*   back        back_vertex_indices
\*   grid        new_vertices
\*   unique      unique_points (empty when no grid point was made)
\*   triangulate the branch "len(unique_points) > 3" is taken
\*   raised      Delaunay raised
\*   raw         the arrays handed to trimesh.Trimesh
FillSteps(m) ==
    LET v == m.vertices
        back == BackVertexIndices(v)
        backVerts == SelectSeq(v, LAMBDA p :
                        Abs(p[3] - ZMin(v)) < ZMin(v) + ZThresholdOffset)
        grid == IF back = {} THEN <<>> ELSE GridVertices(v, back)
        unique == IF Len(grid) > 0 THEN UniquePoints(backVerts \o grid)
                  ELSE <<>>
        triangulate == Len(unique) > 3
        raised == triangulate /\ DelaunayFails(unique)
        simplices == IF triangulate /\ ~raised
                     THEN DelaunaySimplices(unique) ELSE <<>>
    IN  [early |-> back = {},
         back |-> back,
         grid |-> grid,
         unique |-> unique,
         triangulate |-> triangulate,
         raised |-> raised,
         raw |-> IF triangulate /\ ~raised
                 THEN AppendFill(m, unique, simplices)
                 ELSE m]

\* the mesh fill_battery_gap returns (when Delaunay does not raise)
FillBatteryGap(m) ==
    LET st == FillSteps(m)
    IN  IF st.early THEN m
        ELSE RepairFill(Trimesh(st.raw.vertices, st.raw.faces))

(***************************************************************************)
(* analyze_magsafe_ring and the RingSpec of main.                          *)
(***************************************************************************)
\* the standard dimensions main falls back to: outer_radius 28.0,
\* inner_radius 22.5, depth 2.5
StandardInfo ==
    [outer_radius |-> 56, inner_radius |-> 45, depth |-> 500]

\* analyze_magsafe_ring on a reference model, which is described by what
\* the histogram of its radii yields: whether a bin exceeds the 75th
\* percentile (peaks), the centre of the last such bin (outer, XY units)
\* and the Z extent of the model (zExtent, Z units)
AnalyzeMagsafeRing(ref) ==
    IF ref.peaks
    THEN [outer_radius |-> ref.outer,
          inner_radius |-> (65 * ref.outer) \div 100,
          depth |-> IF ref.zExtent < 600 THEN ref.zExtent ELSE 600]
    ELSE [outer_radius |-> 56, inner_radius |-> 36, depth |-> 500]

(***************************************************************************)
(* The input meshes.                                                       *)
(***************************************************************************)
\* a square back plate of the given side: two triangles
Plate(side) ==
    Mesh(<< <<0, 0, 0>>, <<side, 0, 0>>, <<side, side, 0>>, <<0, side, 0>> >>,
         << <<1, 2, 3>>, <<1, 3, 4>> >>)

\* a closed pyramid over the square: base faces wound to face -Z
Pyramid(side, height) ==
    Mesh(<< <<0, 0, 0>>, <<side, 0, 0>>, <<side, side, 0>>, <<0, side, 0>>,
            <<side \div 2, side \div 2, height>> >>,
         << <<1, 3, 2>>, <<1, 4, 3>>, <<1, 2, 5>>, <<2, 3, 5>>,
            <<3, 4, 5>>, <<4, 1, 5>> >>)

\* a vertical fan over back points along the X axis, wide enough to reach
\* past the recess: back points at distances 60, 56, 50, 45 and 0 from the
\* bounds midpoint (60, 0), apex above the midpoint
Fin(height) ==
    Mesh(<< <<0, 0, 0>>, <<4, 0, 0>>, <<10, 0, 0>>, <<15, 0, 0>>,
            <<60, 0, 0>>, <<120, 0, 0>>, <<60, 0, height>> >>,
         << <<1, 2, 7>>, <<2, 3, 7>>, <<3, 4, 7>>, <<4, 5, 7>>,
            <<5, 6, 7>> >>)

\* a single small triangle: its back box holds one grid point
Sliver ==
    Mesh(<< <<0, 0, 0>>, <<2, 0, 0>>, <<0, 2, 0>> >>, << <<1, 2, 3>> >>)

\* a vertical fan over back points on the diagonal X = Y
Diagonal ==
    Mesh(<< <<0, 0, 0>>, <<1, 1, 0>>, <<2, 2, 0>>, <<3, 3, 0>>,
            <<1, 1, 400>> >>,
         << <<1, 2, 5>>, <<2, 3, 5>>, <<3, 4, 5>> >>)

\* the mesh moved along Z
Translate(m, dz) ==
    Mesh(AsSeq([i \in 1..Len(m.vertices) |->
                  <<m.vertices[i][1], m.vertices[i][2],
                    m.vertices[i][3] + dz>>]),
         m.faces)

\* load_stl: trimesh.load_mesh builds a Trimesh of the file's triangles,
\* merging the vertices
LoadStl(v, f) == Trimesh(v, f)

\* a closed box over the square: bottom faces first, top faces last
Box(side, height) ==
    Mesh(<< <<0, 0, 0>>, <<side, 0, 0>>, <<side, side, 0>>, <<0, side, 0>>,
            <<0, 0, height>>, <<side, 0, height>>, <<side, side, height>>,
            <<0, side, height>> >>,
         << <<1, 3, 2>>, <<1, 4, 3>>, <<1, 2, 6>>, <<1, 6, 5>>,
            <<2, 3, 7>>, <<2, 7, 6>>, <<3, 4, 8>>, <<3, 8, 7>>,
            <<4, 1, 5>>, <<4, 5, 8>>, <<5, 6, 7>>, <<5, 7, 8>> >>)

\* a vertical strip over back points along the X axis with two upper
\* vertices: one above the ring band (distance 50 from the bounds midpoint
\* (60, 0)), one above the midpoint
Ridge(height) ==
    Mesh(<< <<0, 0, 0>>, <<4, 0, 0>>, <<15, 0, 0>>, <<120, 0, 0>>,
            <<10, 0, height>>, <<60, 0, height>> >>,
         << <<1, 2, 5>>, <<2, 3, 5>>, <<3, 6, 5>>, <<3, 4, 6>> >>)

\* the largest plate side is 2 * MaxSide XY units (MaxSide mm)
MaxSide == 4

Shapes ==
    {Plate(2 * k) : k \in 1..MaxSide}
      \cup {Pyramid(2 * MaxSide, 60), Pyramid(2 * MaxSide - 2, 60), Box(2 * MaxSide, 400), Fin(400),
            Sliver, Diagonal, Ridge(400)}

\* Z translations of the input: none, +10 mm, -5 mm, +0.005 mm
Shifts == {0, 2000, -1000, 1}

\* what an input file may hold besides a clean surface: its last triangle
\* a second time with the other winding, a triangle with a repeated
\* corner, its last triangle wound the other way, every triangle wound the
\* other way
Defects == {"duplicate", "degenerate", "flipped", "inverted"}

WithDefect(m, d) ==
    LET f == m.faces
        n == Len(f)
    IN  CASE d = "duplicate" -> Mesh(m.vertices, Append(f, Reverse(f[n])))
          [] d = "degenerate" ->
                 Mesh(m.vertices, Append(f, <<f[n][1], f[n][1], f[n][2]>>))
          [] d = "flipped" ->
                 Mesh(m.vertices, [f EXCEPT ![n] = Reverse(f[n])])
          [] OTHER ->
                 Mesh(m.vertices, AsSeq([k \in 1..n |-> Reverse(f[k])]))

\* the meshes main may load
InputMeshes ==
    LET raw == {Translate(m, dz) : m \in Shapes, dz \in Shifts}
                 \cup {WithDefect(m, d) : m \in Shapes, d \in Defects}
    IN  {LoadStl(m.vertices, m.faces) : m \in raw}

\* the --mods lists tried
ModLists ==
    {<<"none">>, <<"no-battery-cover">>, <<"magsafe">>,
     <<"no-battery", "magsafe">>}

\* --magsafe-ref: absent, a file that does not load, or a reference model
\* (see AnalyzeMagsafeRing)
NoRef == [kind |-> "none"]
References ==
    {NoRef,
     [kind |-> "unreadable"],
     [kind |-> "model", peaks |-> TRUE, outer |-> 60, zExtent |-> 400],
     [kind |-> "model", peaks |-> FALSE, outer |-> 0, zExtent |-> 400]}

(***************************************************************************)
(* The program: main, and apply_modifications stage by stage.              *)
(***************************************************************************)
VARIABLES
    pc,             \* where main / apply_modifications stands
    mod_list,       \* the parsed --mods
    remove_battery, \* 'no-battery-cover' in mod_list or 'no-battery' in it
    add_magsafe,    \* 'magsafe' in mod_list
    magsafe_ref,    \* the --magsafe-ref option
    magsafe_info,   \* the RingSpec main builds (<<>> for None)
    mesh,           \* the loaded mesh
    modified_mesh,  \* the mesh apply_modifications works on
    stages,         \* the mesh-changing calls apply_modifications made
    fill_call,      \* <<>> or <<what fill_battery_gap did>>
    recess_call,    \* <<>> or <<what add_magsafe_recess was given and built>>
    output          \* <<>> or <<the mesh saved>>

vars == <<pc, mod_list, remove_battery, add_magsafe, magsafe_ref,
          magsafe_info, mesh, modified_mesh, stages, fill_call, recess_call,
          output>>

Init ==
    /\ pc = "main"
    /\ mod_list \in ModLists
    /\ remove_battery = (\E i \in 1..Len(mod_list) :
                            mod_list[i] \in {"no-battery-cover", "no-battery"})
    /\ add_magsafe = (\E i \in 1..Len(mod_list) : mod_list[i] = "magsafe")
    /\ magsafe_ref \in References
    /\ magsafe_info = <<>>
    /\ mesh \in InputMeshes
    /\ modified_mesh = <<>>
    /\ stages = <<>>
    /\ fill_call = <<>>
    /\ recess_call = <<>>
    /\ output = <<>>

\* main, "Analyze magsafe reference if provided, otherwise use standard
\* dimensions"
AnalyzeReference ==
    /\ pc = "main"
    /\ magsafe_info' =
          IF ~add_magsafe THEN <<>>
          ELSE IF magsafe_ref.kind = "model"
               THEN <<AnalyzeMagsafeRing(magsafe_ref)>>
               ELSE <<StandardInfo>>
    /\ pc' = "call"
    /\ UNCHANGED <<mod_list, remove_battery, add_magsafe, magsafe_ref, mesh,
                   modified_mesh, stages, fill_call, recess_call, output>>

\* main calls apply_modifications(mesh, remove_battery_gap, add_magsafe);
\* modified_mesh = mesh.copy()
CallApply ==
    /\ pc = "call"
    /\ modified_mesh' = mesh
    /\ pc' = "gap"
    /\ UNCHANGED <<mod_list, remove_battery, add_magsafe, magsafe_ref,
                   magsafe_info, mesh, stages, fill_call, recess_call, output>>

\* if remove_battery_gap: modified_mesh = fill_battery_gap(modified_mesh)
FillGap ==
    /\ pc = "gap"
    /\ remove_battery
    /\ LET st == FillSteps(modified_mesh)
       IN  /\ ~st.raised
           /\ fill_call' = <<[input |-> modified_mesh, steps |-> st,
                              result |-> FillBatteryGap(modified_mesh)]>>
           /\ modified_mesh' = FillBatteryGap(modified_mesh)
    /\ stages' = Append(stages, "fill_battery_gap")
    /\ pc' = "recess"
    /\ UNCHANGED <<mod_list, remove_battery, add_magsafe, magsafe_ref,
                   magsafe_info, mesh, recess_call, output>>

\* Delaunay raises inside fill_battery_gap: main reports "Error applying
\* modifications" and exits
FillGapRaises ==
    /\ pc = "gap"
    /\ remove_battery
    /\ LET st == FillSteps(modified_mesh)
       IN  /\ st.raised
           /\ fill_call' = <<[input |-> modified_mesh, steps |-> st,
                              result |-> <<>>]>>
    /\ pc' = "failed"
    /\ UNCHANGED <<mod_list, remove_battery, add_magsafe, magsafe_ref,
                   magsafe_info, mesh, modified_mesh, stages, recess_call,
                   output>>

SkipGap ==
    /\ pc = "gap"
    /\ ~remove_battery
    /\ pc' = "recess"
    /\ UNCHANGED <<mod_list, remove_battery, add_magsafe, magsafe_ref,
                   magsafe_info, mesh, modified_mesh, stages, fill_call,
                   recess_call, output>>

\* if add_magsafe: modified_mesh = add_magsafe_recess(modified_mesh,
\* outer_radius=28.0, inner_radius=22.5, depth=2.5, position=None)
AddRecess ==
    /\ pc = "recess"
    /\ add_magsafe
    /\ recess_call' =
          <<[input |-> modified_mesh,
             outer_radius |-> OuterRadius,
             inner_radius |-> InnerRadius,
             depth |-> RecessDepth,
             raw |-> RecessRaw(modified_mesh, OuterRadius, InnerRadius,
                               RecessDepth, <<>>)]>>
    /\ modified_mesh' = AddMagsafeRecess(modified_mesh, OuterRadius,
                                         InnerRadius, RecessDepth, <<>>)
    /\ stages' = Append(stages, "add_magsafe_recess")
    /\ pc' = "cleanup"
    /\ UNCHANGED <<mod_list, remove_battery, add_magsafe, magsafe_ref,
                   magsafe_info, mesh, fill_call, output>>

SkipRecess ==
    /\ pc = "recess"
    /\ ~add_magsafe
    /\ pc' = "cleanup"
    /\ UNCHANGED <<mod_list, remove_battery, add_magsafe, magsafe_ref,
                   magsafe_info, mesh, modified_mesh, stages, fill_call,
                   recess_call, output>>

\* the final fix left out when the recess, which fixes normals itself,
\* has just run
FinalCleanupUnlessRecessed ==
    /\ pc = "cleanup"
    /\ modified_mesh' = IF add_magsafe THEN modified_mesh
                        ELSE FixNormals(modified_mesh)
    /\ stages' = IF add_magsafe THEN stages
                 ELSE Append(stages, "fix_normals")
    /\ pc' = "verify"
    /\ UNCHANGED <<mod_list, remove_battery, add_magsafe, magsafe_ref,
                   magsafe_info, mesh, fill_call, recess_call, output>>

\* "Final cleanup": modified_mesh.fix_normals()
FinalCleanup ==
    /\ pc = "cleanup"
    /\ modified_mesh' = FixNormals(modified_mesh)
    /\ stages' = Append(stages, "fix_normals")
    /\ pc' = "verify"
    /\ UNCHANGED <<mod_list, remove_battery, add_magsafe, magsafe_ref,
                   magsafe_info, mesh, fill_call, recess_call, output>>

\* "Verify we still have a flat back": reads and prints, then returns
VerifyBack ==
    /\ pc = "verify"
    /\ pc' = "save"
    /\ UNCHANGED <<mod_list, remove_battery, add_magsafe, magsafe_ref,
                   magsafe_info, mesh, modified_mesh, stages, fill_call,
                   recess_call, output>>

\* main: save_stl(modified_mesh, output_path)
SaveStl ==
    /\ pc = "save"
    /\ output' = <<modified_mesh>>
    /\ pc' = "done"
    /\ UNCHANGED <<mod_list, remove_battery, add_magsafe, magsafe_ref,
                   magsafe_info, mesh, modified_mesh, stages, fill_call,
                   recess_call>>

Next ==
    \/ AnalyzeReference
    \/ CallApply
    \/ FillGap
    \/ FillGapRaises
    \/ SkipGap
    \/ AddRecess
    \/ SkipRecess
    \/ FinalCleanup
    \/ VerifyBack
    \/ SaveStl

Spec == Init /\ [][Next]_vars

(***************************************************************************)
(* The claims.                                                             *)
(***************************************************************************)
\* apply_modifications has returned
Returned == pc \in {"save", "done"}

\* fill_battery_gap has just returned a mesh
FillReturned == pc = "recess" /\ fill_call # <<>>

\* add_magsafe_recess has just returned
RecessReturned == pc = "cleanup" /\ recess_call # <<>>

\* the corner positions of a face
Corners(v, f) == {v[f[1]], v[f[2]], v[f[3]]}

\* the vertex indices of a face
CornerIndices(f) == {f[1], f[2], f[3]}

C2_Center2(v) ==
    <<MinOf({v[i][1] : i \in 1..Len(v)}) + MaxOf({v[i][1] : i \in 1..Len(v)}),
      MinOf({v[i][2] : i \in 1..Len(v)}) + MaxOf({v[i][2] : i \in 1..Len(v)})>>

\* vertex i of v is on the back surface and its radial distance d from
\* the centre satisfies lo < d <= hi (distances doubled, then squared)
C2_InBand(v, i, lo, hi) ==
    LET c2 == C2_Center2(v)
        zmin == MinOf({v[j][3] : j \in 1..Len(v)})
        d4 == (2 * v[i][1] - c2[1]) * (2 * v[i][1] - c2[1])
                + (2 * v[i][2] - c2[2]) * (2 * v[i][2] - c2[2])
    IN  /\ Abs(v[i][3] - zmin) < BackSurfaceTol
        /\ (lo < 0 \/ d4 > 4 * lo * lo)
        /\ d4 <= 4 * hi * hi

C3_OutsideBand(v, f) ==
    LET zmin == MinOf({v[j][3] : j \in 1..Len(v)})
    IN  \A s \in 1..3 : Abs(v[f[s]][3] - zmin) >= ZThresholdOffset

\* the mesh has a face with the corner positions of face f of [v, .]
C3_StillAFace(m, v, f) ==
    \E k \in 1..Len(m.faces) : Corners(m.vertices, m.faces[k]) = Corners(v, f)

\* C3 as stated: every input face entirely outside the plane-tolerance
\* band is a face of the mesh fill_battery_gap returns.
C3_EveryOutsideFaceKept ==
    FillReturned =>
        LET c == fill_call[1]
        IN  \A k \in 1..Len(c.input.faces) :
               C3_OutsideBand(c.input.vertices, c.input.faces[k])
                  => C3_StillAFace(c.result, c.input.vertices,
                                   c.input.faces[k])

\* C3 amended: every input face of non-zero area entirely outside the
\* plane-tolerance band is a face of the mesh fill_battery_gap returns.
C3_OutsideFacesOfNonZeroAreaKept ==
    FillReturned =>
        LET c == fill_call[1]
        IN  \A k \in 1..Len(c.input.faces) :
               (/\ C3_OutsideBand(c.input.vertices, c.input.faces[k])
                /\ ~IsDegenerate(c.input.vertices, c.input.faces[k]))
                  => C3_StillAFace(c.result, c.input.vertices,
                                   c.input.faces[k])

\* the gap was triangulated on a mesh that has a face of non-zero area
\* entirely outside the band
C3_Witness ==
    /\ FillReturned
    /\ fill_call[1].steps.triangulate
    /\ Len(fill_call[1].steps.raw.faces) > Len(fill_call[1].input.faces)
    /\ \E k \in 1..Len(fill_call[1].input.faces) :
          /\ C3_OutsideBand(fill_call[1].input.vertices,
                            fill_call[1].input.faces[k])
          /\ ~IsDegenerate(fill_call[1].input.vertices,
                           fill_call[1].input.faces[k])

\* C4: the repair sequence is idempotent: on the arrays each stage hands
\* to its clean-up, applying the sequence to its own result changes
\* nothing (and the stage returned the result of one application).
C4_RepairIdempotent ==
    /\ (FillReturned /\ ~fill_call[1].steps.early) =>
          LET once == RepairFill(fill_call[1].steps.raw)
          IN  /\ once = modified_mesh
              /\ RepairFill(once) = once
    /\ RecessReturned =>
          LET once == RepairRecess(recess_call[1].raw)
          IN  /\ once = modified_mesh
              /\ RepairRecess(once) = once

\* a repair that had vertices to merge and faces to remove
C4_Witness ==
    /\ FillReturned /\ ~fill_call[1].steps.early
    /\ Len(modified_mesh.vertices) < Len(fill_call[1].steps.raw.vertices)
    /\ Len(modified_mesh.faces) < Len(fill_call[1].steps.raw.faces)
    /\ RepairFill(modified_mesh) = modified_mesh

\* the wall faces W around the ring of vertex columns base + 2i + 1 (bottom)
\* and base + 2i + 2 (top): the vertical edge of column i is shared by
\* exactly two triangles, one reaching the next column and one the
\* previous, the columns counted round the ring
C5_ClosedLoop(W, base) ==
    \A i \in 0..(NumSegments - 1) :
        LET col(j) == {base + 2 * j + 1, base + 2 * j + 2}
            tri == {f \in W : col(i) \subseteq CornerIndices(f)}
        IN  /\ Cardinality(tri) = 2
            /\ \E f \in tri :
                  CornerIndices(f) \cap col((i + 1) % NumSegments) # {}
            /\ \E f \in tri :
                  CornerIndices(f)
                     \cap col((i + NumSegments - 1) % NumSegments) # {}

\* C5: add_magsafe_recess appends 4 * num_segments wall vertices and
\* wall faces: exactly 2 * num_segments triangles on the outer ring of
\* columns and 2 * num_segments on the inner one, each wall a closed loop.
C5_WallTopology ==
    RecessReturned =>
        LET c == recess_call[1]
            off == Len(c.input.vertices)
            nf == Len(c.input.faces)
            walls == {c.raw.faces[k] : k \in (nf + 1)..Len(c.raw.faces)}
            outer == {f \in walls : CornerIndices(f) \subseteq
                          (off + 1)..(off + 2 * NumSegments)}
            inner == {f \in walls : CornerIndices(f) \subseteq
                          (off + 2 * NumSegments + 1)..(off + 4 * NumSegments)}
        IN  /\ Len(c.raw.vertices) = off + 4 * NumSegments
            /\ Len(c.raw.faces) = nf + 4 * NumSegments
            /\ walls = outer \cup inner
            /\ Cardinality(outer) = 2 * NumSegments
            /\ Cardinality(inner) = 2 * NumSegments
            /\ \A f \in walls : Cardinality(CornerIndices(f)) = 3
            /\ C5_ClosedLoop(outer, off)
            /\ C5_ClosedLoop(inner, off + 2 * NumSegments)

\* a recess was built: 256 wall faces follow the faces of its input
C5_Witness ==
    /\ RecessReturned
    /\ Len(recess_call[1].raw.faces)
          = Len(recess_call[1].input.faces) + 256
    /\ Len(modified_mesh.faces) >= 256

\* the calls apply_modifications makes for the flags given
C6_Expected ==
    (IF remove_battery THEN <<"fill_battery_gap">> ELSE <<>>)
      \o (IF add_magsafe THEN <<"add_magsafe_recess">> ELSE <<>>)
      \o <<"fix_normals">>

\* C6: the stages run in the fixed order gap fill (only if requested),
\* recess (only if requested), one global normal fix, return: the calls
\* made so far are always a prefix of that list and, on return, all of it;
\* gap fill works on the loaded mesh and the recess on what gap fill
\* returned (on the loaded mesh when gap fill is off); a stage whose flag
\* is off is never called.
C6_StageOrder ==
    /\ Len(stages) <= Len(C6_Expected)
    /\ stages = SubSeq(C6_Expected, 1, Len(stages))
    /\ Returned => stages = C6_Expected
    /\ fill_call # <<>> => remove_battery /\ fill_call[1].input = mesh
    /\ recess_call # <<>> =>
          /\ add_magsafe
          /\ recess_call[1].input =
                IF remove_battery THEN fill_call[1].result ELSE mesh
    /\ (pc \in {"cleanup", "verify", "save", "done"}) =>
          /\ remove_battery = (fill_call # <<>>)
          /\ add_magsafe = (recess_call # <<>>)

\* both stages ran, gap fill first and on a mesh it changed, then the one
\* final fix
C6_Witness ==
    /\ pc = "done"
    /\ stages = <<"fill_battery_gap", "add_magsafe_recess", "fix_normals">>
    /\ fill_call[1].result # mesh
    /\ recess_call[1].input = fill_call[1].result

\* C7 as stated: the recess is carved with the outer radius, inner radius
\* and depth of the RingSpec main built for the invocation.
C7_RecessUsesRingSpec ==
    (recess_call # <<>> /\ magsafe_info # <<>>) =>
        /\ recess_call[1].outer_radius = magsafe_info[1].outer_radius
        /\ recess_call[1].inner_radius = magsafe_info[1].inner_radius
        /\ recess_call[1].depth = magsafe_info[1].depth

\* find_battery_gap (analyzer.py): ten times the X and Y range of the
\* search region, the bounding box of the bottom vertices (Z within 2 mm
\* of the lowest) scaled to 60% about its centre: <<x lo, y lo, x hi, y hi>>
FindBatteryGap10(v) ==
    LET zmin == ZMin(v)
        bottom == {i \in 1..Len(v) : v[i][3] <= zmin + 400}
        box == BackBox(v, bottom)
        w == box[3] - box[1]
        h == box[4] - box[2]
    IN  <<5 * (box[1] + box[3]) - 3 * w, 5 * (box[2] + box[4]) - 3 * h,
          5 * (box[1] + box[3]) + 3 * w, 5 * (box[2] + box[4]) + 3 * h>>

\* C8 as stated: no grid point of fill_battery_gap lies outside the
\* bounding box of the bottom vertices scaled to 60% about its centre.
C8_GridInsideScaledBox ==
    FillReturned =>
        LET c == fill_call[1]
            gap == FindBatteryGap10(c.input.vertices)
        IN  \A k \in 1..Len(c.steps.grid) :
               /\ gap[1] <= 10 * c.steps.grid[k][1]
               /\ 10 * c.steps.grid[k][1] <= gap[3]
               /\ gap[2] <= 10 * c.steps.grid[k][2]
               /\ 10 * c.steps.grid[k][2] <= gap[4]

\* C8 amended: the rectangle fill_battery_gap fills with grid points is
\* the whole bounding box of the vertices it collected as back vertices:
\* the grid points are exactly the points x_min + 2 mm * i, y_min + 2 mm * j
\* with x_min <= x < x_max and y_min <= y < y_max, at z_min; none lies
\* outside that box.
C8_GridFillsBackBox ==
    (FillReturned /\ ~fill_call[1].steps.early) =>
        LET c == fill_call[1]
            v == c.input.vertices
            zmin == MinOf({v[j][3] : j \in 1..Len(v)})
            xs == {v[i][1] : i \in c.steps.back}
            ys == {v[i][2] : i \in c.steps.back}
            wanted == {<<x, y, zmin>> :
                         x \in {a \in MinOf(xs)..(MaxOf(xs) - 1) :
                                  (a - MinOf(xs)) % GridDensity = 0},
                         y \in {b \in MinOf(ys)..(MaxOf(ys) - 1) :
                                  (b - MinOf(ys)) % GridDensity = 0}}
        IN  /\ Range(c.steps.grid) = wanted
            /\ Len(c.steps.grid) = Cardinality(wanted)

\* a grid of several rows and columns was made, its first point on the
\* corner of the back box
C8_Witness ==
    /\ FillReturned
    /\ Len(fill_call[1].steps.grid) >= 4
    /\ fill_call[1].steps.grid[1][1]
          = MinOf({fill_call[1].input.vertices[i][1] :
                     i \in fill_call[1].steps.back})
    /\ fill_call[1].steps.triangulate

\* fewer than 4 unique points were left: the triangulation was skipped
C9_TooFewPoints ==
    /\ Len(fill_call[1].steps.grid) > 0
    /\ Len(fill_call[1].steps.unique) < 4

\* C9 as stated: with no vertex in the band, or with fewer than 4 unique
\* points, fill_battery_gap returns the vertices and faces of its input.
C9_DegeneracyReturnsInput ==
    (FillReturned /\ (fill_call[1].steps.early \/ C9_TooFewPoints)) =>
        fill_call[1].result = fill_call[1].input

\* a mesh the repair sequence has nothing to do on: positions all
\* different, every vertex used, no face of zero area, no two faces on
\* the same vertices
C9_Clean(m) ==
    /\ \A i, j \in 1..Len(m.vertices) :
          m.vertices[i] = m.vertices[j] => i = j
    /\ \A i \in 1..Len(m.vertices) :
          \E k \in 1..Len(m.faces) : i \in CornerIndices(m.faces[k])
    /\ \A k \in 1..Len(m.faces) : ~IsDegenerate(m.vertices, m.faces[k])
    /\ \A j, k \in 1..Len(m.faces) :
          CornerIndices(m.faces[j]) = CornerIndices(m.faces[k]) => j = k

\* C9 amended: both cases succeed and add no vertex and no face.  With no
\* vertex in the band the input is returned as it is.  With fewer than 4
\* unique points the input is returned after the repair sequence, which
\* leaves it as it is when it has no duplicate vertex, no unused vertex,
\* no face of zero area and no duplicate face.
C9_DegeneracyAddsNothing ==
    /\ (FillReturned /\ fill_call[1].steps.early) =>
          fill_call[1].result = fill_call[1].input
    /\ (fill_call # <<>> /\ ~fill_call[1].steps.early /\ C9_TooFewPoints) =>
          LET c == fill_call[1]
          IN  /\ pc # "failed"
              /\ ~c.steps.triangulate
              /\ c.steps.raw = c.input
              /\ Range(c.result.vertices) \subseteq Range(c.input.vertices)
              /\ Len(c.result.faces) <= Len(c.input.faces)
              /\ \A k \in 1..Len(c.result.faces) :
                    C3_StillAFace(c.input, c.result.vertices,
                                  c.result.faces[k])
              /\ C9_Clean(c.result)
              /\ C9_Clean(c.input) => c.result = c.input

\* the triangulation was skipped on three unique points
C9_Witness ==
    /\ FillReturned
    /\ ~fill_call[1].steps.early
    /\ Len(fill_call[1].steps.unique) = 3
    /\ fill_call[1].result = fill_call[1].input

\* C10 as stated: the back-plane vertices fill_battery_gap collects are
\* exactly those whose Z is within 0.5 mm of the lowest Z, wherever the
\* mesh lies along Z.
C10_BandIsAbsolute ==
    fill_call # <<>> =>
        LET v == fill_call[1].input.vertices
            zmin == MinOf({v[j][3] : j \in 1..Len(v)})
        IN  fill_call[1].steps.back
               = {i \in 1..Len(v) : Abs(v[i][3] - zmin) < ZThresholdOffset}

\* the classes of the vertices v, stated from the coordinates: on the back
\* surface, and the radial distance d from the bounds midpoint (four
\* times its square is compared)
C11_Back(v, i) ==
    Abs(v[i][3] - MinOf({v[j][3] : j \in 1..Len(v)})) < BackSurfaceTol

C11_D4(v, i) ==
    LET c2 == C2_Center2(v)
    IN  (2 * v[i][1] - c2[1]) * (2 * v[i][1] - c2[1])
          + (2 * v[i][2] - c2[2]) * (2 * v[i][2] - c2[2])

\* C11: the masks add_magsafe_recess computes partition the back-surface
\* vertices: each is in exactly one of inner-disc (d <= inner_radius),
\* ring-band (inner_radius < d <= outer_radius) and unaffected
\* (d > outer_radius); d = inner_radius is inner-disc and keeps its Z,
\* d = outer_radius is ring-band and is raised by depth; a vertex off the
\* back surface is in neither mask and keeps its position.
C11_ClassificationPartition ==
    RecessReturned =>
        LET c == recess_call[1]
            v == c.input.vertices
            w == c.raw.vertices
            c2 == Center2(v, <<>>)
            zmin == ZMin(v)
            in == 4 * c.inner_radius * c.inner_radius
            out == 4 * c.outer_radius * c.outer_radius
        IN  \A i \in 1..Len(v) :
              LET inner == InnerCircle(v[i], c2, zmin, c.inner_radius)
                  ring == RingArea(v[i], c2, zmin, c.inner_radius,
                                   c.outer_radius)
                  d4 == C11_D4(v, i)
              IN  /\ inner = (C11_Back(v, i) /\ d4 <= in)
                  /\ ring = (C11_Back(v, i) /\ in < d4 /\ d4 <= out)
                  /\ ~(inner /\ ring)
                  /\ C11_Back(v, i) => (inner \/ ring \/ d4 > out)
                  /\ (C11_Back(v, i) /\ d4 = in) => (inner /\ w[i] = v[i])
                  /\ (C11_Back(v, i) /\ d4 = out) =>
                        (ring /\ w[i] = <<v[i][1], v[i][2],
                                          v[i][3] + c.depth>>)
                  /\ ~C11_Back(v, i) => (~inner /\ ~ring /\ w[i] = v[i])
                  /\ ~ring => w[i] = v[i]

\* a recess was carved into a mesh with a back vertex at exactly the inner
\* radius, one at exactly the outer radius, one beyond it, and a vertex
\* off the back surface above the ring band
C11_Witness ==
    /\ RecessReturned
    /\ LET c == recess_call[1]
           v == c.input.vertices
           in == 4 * c.inner_radius * c.inner_radius
           out == 4 * c.outer_radius * c.outer_radius
       IN  /\ \E i \in 1..Len(v) : C11_Back(v, i) /\ C11_D4(v, i) = in
           /\ \E i \in 1..Len(v) : C11_Back(v, i) /\ C11_D4(v, i) = out
           /\ \E i \in 1..Len(v) : C11_Back(v, i) /\ C11_D4(v, i) > out
           /\ \E i \in 1..Len(v) :
                 /\ ~C11_Back(v, i)
                 /\ in < C11_D4(v, i) /\ C11_D4(v, i) <= out
                 /\ c.raw.vertices[i] = v[i]

\* the corner positions of the faces fill_battery_gap appended to the
\* arrays it hands to trimesh.Trimesh
C12_AddedCorners ==
    LET c == fill_call[1]
        raw == c.steps.raw
    IN  UNION {Corners(raw.vertices, raw.faces[k]) :
                 k \in (Len(c.input.faces) + 1)..Len(raw.faces)}

C13_InRange(m) ==
    \A k \in 1..Len(m.faces) :
        CornerIndices(m.faces[k]) \subseteq 1..Len(m.vertices)

\* the faces a stage appended to the arrays raw, built on the mesh input,
\* reference only the vertices the stage appended
C13_NewFacesOnNewVertices(input, raw) ==
    \A k \in (Len(input.faces) + 1)..Len(raw.faces) :
        CornerIndices(raw.faces[k])
           \subseteq (Len(input.vertices) + 1)..Len(raw.vertices)

\* C13: after every stage every face index is in range: the faces gap
\* fill and recess append reference only the appended vertices (from the
\* vertex count before the append up to the count after it), and the
\* loaded mesh, the arrays handed to trimesh.Trimesh, the mesh each stage
\* returns after repair and the mesh saved have every face on existing
\* vertices.
C13_FaceIndicesInRange ==
    /\ C13_InRange(mesh)
    /\ modified_mesh # <<>> => C13_InRange(modified_mesh)
    /\ fill_call # <<>> =>
          /\ C13_InRange(fill_call[1].steps.raw)
          /\ ~fill_call[1].steps.raised => C13_InRange(fill_call[1].result)
          /\ C13_NewFacesOnNewVertices(fill_call[1].input,
                                       fill_call[1].steps.raw)
    /\ recess_call # <<>> =>
          /\ C13_InRange(recess_call[1].raw)
          /\ Len(recess_call[1].raw.vertices)
                = Len(recess_call[1].input.vertices) + 4 * NumSegments
          /\ C13_NewFacesOnNewVertices(recess_call[1].input,
                                       recess_call[1].raw)
    /\ output # <<>> => C13_InRange(output[1])

\* gap fill triangulated and the recess was carved on its result: both
\* stages appended faces, and the mesh was saved
C13_Witness ==
    /\ pc = "done" /\ output # <<>>
    /\ fill_call # <<>> /\ recess_call # <<>>
    /\ fill_call[1].steps.triangulate
    /\ Len(fill_call[1].steps.raw.faces) > Len(fill_call[1].input.faces)
    /\ recess_call[1].input = fill_call[1].result
    /\ Len(recess_call[1].raw.faces)
         = Len(recess_call[1].input.faces) + 4 * NumSegments

\* C14 as stated: on every flag combination the lowest Z of the mesh
\* apply_modifications returns is the lowest Z of the input mesh.
C14_BackPlaneHeightPreserved ==
    Returned => ZMin(modified_mesh.vertices) = ZMin(mesh.vertices)

=============================================================================
